---- MODULE Spec2Model ----
(***************************************************************************)
(* The WeatherTime widget (src/src/weather-time.tsx, the last component of *)
(* the file): the icon resolver getIconFilename, the time formatter        *)
(* formatDateTime, and the component's fetch / clock / image state.        *)
(*                                                                         *)
(* Strings the code only compares are TLA+ strings.  Strings the code      *)
(* builds or converts (formatDateTime's result, the condition text) are    *)
(* sequences of one-character strings.  A URL is the sequence of its       *)
(* "/"-separated segments, so `${base}/${file}` is base \o <<file>> and    *)
(* url.split("/").pop() is the last element.  A nullable value is a        *)
(* sequence of length 0 (null) or 1.                                       *)
(***************************************************************************)
EXTENDS Integers, Sequences, FiniteSets, TLC

VARIABLES
    \* ---- React state of the component (weather-time.tsx lines 419-452) ----
    condition,      \* condition text
    iconUrl,        \* URL of the resolved icon, <<>> for ""
    temperatureC,   \* null or tenths of a degree Celsius
    temperatureF,   \* null or tenths of a degree Fahrenheit
    isFahrenheit,   \* the unit flag
    localTime,      \* null or the local clock, getTime() milliseconds
    isLoading,
    cityName, region, country,
    overrideCity,   \* null or the city set through the popup
    \* ---- props and closures ----
    city,           \* the city prop, <<>> when absent or empty
    pollCity,       \* displayCity in the closure the polling interval calls
    \* ---- the component instance and its polling interval (lines 581-587) ----
    mounted,
    pollIntervals,  \* number of active polling intervals
    \* ---- the runs of fetchWeatherAndTime ----
    fetches,        \* the runs in flight, oldest first: [pc, q, overtaken];
                    \* pc is "weather" or "time", q the city requested
    \* ---- the <img> element of the icon ----
    img,            \* [state, src, fallback, fallback2]; dataset.fallback / dataset.fallback2
    \* ---- the per-second ticker (lines 561-578) ----
    clockStartedRef,
    clockIntervals, \* number of active setInterval tickers
    clockCleanup,   \* whether the last run of the clock effect returned its cleanup
    \* ---- history ----
    shown,          \* what last wrote the displayed weather fields
    \* ---- the two pure functions, applied to drawn inputs ----
    called,         \* which function has been applied: "none" | "getIconFilename" | "formatDateTime"
    code,           \* getIconFilename's code argument
    timeOfDay,      \* getIconFilename's timeOfDay argument
    filename,       \* getIconFilename's result
    date,           \* formatDateTime's argument: [month, date, hours, minutes]
    formatted       \* formatDateTime's result

pureVars == <<called, code, timeOfDay, filename, date, formatted>>

displayVars ==
    <<condition, iconUrl, temperatureC, temperatureF, isFahrenheit, localTime,
      isLoading, cityName, region, country>>

cityVars == <<overrideCity, city, pollCity>>

lifeVars == <<mounted, pollIntervals>>

clockVars == <<clockStartedRef, clockIntervals, clockCleanup>>

widgetVars ==
    <<displayVars, cityVars, lifeVars, fetches, img, clockVars, shown>>

vars == <<widgetVars, pureVars>>

-----------------------------------------------------------------------------
(* Bounds *)

\* getIconFilename is applied to every code from CodeSpan below the lowest
\* table code to CodeSpan above the highest, and to the 32-bit extremes.
CodeSpan == 20

\* formatDateTime is applied to the months 0..MaxMonth (getMonth numbering).
MaxMonth == 1

\* Runs of fetchWeatherAndTime in flight at one time.
MaxInFlight == 2

\* Ticker callbacks run after a fetch has set the local clock, until the next
\* fetch sets it.
MaxTicks == 1

-----------------------------------------------------------------------------
(* getIconFilename: the switch of weather-time.tsx lines 323-385 *)

MistCodes == {1030, 1135, 1147}

DrizzleCodes == {1063, 1072, 1150, 1153, 1168, 1171}

RainCodes == {1180, 1183, 1186, 1189, 1192, 1195, 1198, 1201, 1240, 1243, 1246}

SnowCodes == {1066, 1069, 1114, 1117, 1204, 1207, 1210, 1213, 1216, 1219,
              1222, 1225, 1237, 1249, 1252, 1255, 1258, 1261, 1264}

ThunderCodes == {1087, 1273, 1276, 1279, 1282}

\* The resolver with its default branch returning the empty string.
getIconFilename_emptyDefault(c, t) ==
    CASE c = 1000 -> IF t = "day" THEN "sunny.svg" ELSE "clear-moon.svg"
      [] c = 1003 -> IF t = "day" THEN "partly-cloudy-sun.svg" ELSE "partly-cloudy-moon.svg"
      [] c = 1006 -> "cloudy.svg"
      [] c = 1009 -> "double-clouds.svg"
      [] c \in MistCodes -> "mist.svg"
      [] c \in DrizzleCodes -> IF t = "day" THEN "drizzle.svg" ELSE "drizzle-moon.svg"
      [] c \in RainCodes -> "rain.svg"
      [] c \in SnowCodes -> "snow.svg"
      [] c \in ThunderCodes -> "thunderstorm.svg"
      [] OTHER -> ""

\* The resolver with a night variant for the rain family.
getIconFilename_rainNight(c, t) ==
    CASE c = 1000 -> IF t = "day" THEN "sunny.svg" ELSE "clear-moon.svg"
      [] c = 1003 -> IF t = "day" THEN "partly-cloudy-sun.svg" ELSE "partly-cloudy-moon.svg"
      [] c = 1006 -> "cloudy.svg"
      [] c = 1009 -> "double-clouds.svg"
      [] c \in MistCodes -> "mist.svg"
      [] c \in DrizzleCodes -> IF t = "day" THEN "drizzle.svg" ELSE "drizzle-moon.svg"
      [] c \in RainCodes -> IF t = "day" THEN "rain.svg" ELSE "drizzle-moon.svg"
      [] c \in SnowCodes -> "snow.svg"
      [] c \in ThunderCodes -> "thunderstorm.svg"
      [] OTHER -> "default.svg"

\* The resolver of the earlier variant (weather-time.tsx lines 10-71) for the
\* drizzle family: one icon for day and night.
getIconFilename_drizzleFlat(c, t) ==
    CASE c = 1000 -> IF t = "day" THEN "sunny.svg" ELSE "clear-moon.svg"
      [] c = 1003 -> IF t = "day" THEN "partly-cloudy-sun.svg" ELSE "partly-cloudy-moon.svg"
      [] c = 1006 -> "cloudy.svg"
      [] c = 1009 -> "double-clouds.svg"
      [] c \in MistCodes -> "mist.svg"
      [] c \in DrizzleCodes -> "drizzle.svg"
      [] c \in RainCodes -> "rain.svg"
      [] c \in SnowCodes -> "snow.svg"
      [] c \in ThunderCodes -> "thunderstorm.svg"
      [] OTHER -> "default.svg"

getIconFilename(c, t) ==
    CASE c = 1000 -> IF t = "day" THEN "sunny.svg" ELSE "clear-moon.svg"
      [] c = 1003 -> IF t = "day" THEN "partly-cloudy-sun.svg" ELSE "partly-cloudy-moon.svg"
      [] c = 1006 -> "cloudy.svg"
      [] c = 1009 -> "double-clouds.svg"
      [] c \in MistCodes -> "mist.svg"
      [] c \in DrizzleCodes -> IF t = "day" THEN "drizzle.svg" ELSE "drizzle-moon.svg"
      [] c \in RainCodes -> "rain.svg"
      [] c \in SnowCodes -> "snow.svg"
      [] c \in ThunderCodes -> "thunderstorm.svg"
      [] OTHER -> "default.svg"

-----------------------------------------------------------------------------
(* formatDateTime: weather-time.tsx lines 390-406 *)

DigitChars == <<"0", "1", "2", "3", "4", "5", "6", "7", "8", "9">>

\* Number.prototype.toString for a non-negative integer.
RECURSIVE toString(_)
toString(n) ==
    IF n < 10 THEN <<DigitChars[n + 1]>>
    ELSE toString(n \div 10) \o <<DigitChars[(n % 10) + 1]>>

\* String.prototype.padStart with a one-character pad string.
RECURSIVE padStart(_, _, _)
padStart(s, targetLength, padChar) ==
    IF Len(s) >= targetLength THEN s
    ELSE padStart(<<padChar>> \o s, targetLength, padChar)

\* date.toLocaleString("en-US", { month: "short" })
MonthShort ==
    << <<"J","a","n">>, <<"F","e","b">>, <<"M","a","r">>, <<"A","p","r">>,
       <<"M","a","y">>, <<"J","u","n">>, <<"J","u","l">>, <<"A","u","g">>,
       <<"S","e","p">>, <<"O","c","t">>, <<"N","o","v">>, <<"D","e","c">> >>

\* The suffix rule without the teens exceptions.
getOrdinalSuffix_noTeens(n) ==
    IF n % 10 = 1 THEN <<"s", "t">>
    ELSE IF n % 10 = 2 THEN <<"n", "d">>
    ELSE IF n % 10 = 3 THEN <<"r", "d">>
    ELSE <<"t", "h">>

getOrdinalSuffix(n) ==
    IF n % 10 = 1 /\ n % 100 # 11 THEN <<"s", "t">>
    ELSE IF n % 10 = 2 /\ n % 100 # 12 THEN <<"n", "d">>
    ELSE IF n % 10 = 3 /\ n % 100 # 13 THEN <<"r", "d">>
    ELSE <<"t", "h">>

\* The hour without the "|| 12" of line 393.
hours12_noOr(h) == h % 12

\* date.getHours() % 12 || 12
hours12(h) == IF h % 12 # 0 THEN h % 12 ELSE 12

\* date.getHours() >= 12 ? "pm" : "am"
ampmOf(h) == IF h >= 12 THEN <<"p", "m">> ELSE <<"a", "m">>

\* The formatter of the earlier variant (part_000 lines 95-116): it leaves
\* the minute field out when the minute is 0.
formatDateTime_elide(d) ==
    LET month == MonthShort[d.month + 1]
        day == d.date
        hours == hours12(d.hours)
        minutes == d.minutes
        ampm == ampmOf(d.hours)
        suffix == getOrdinalSuffix(day)
        timeString ==
            IF minutes = 0 THEN toString(hours) \o ampm
            ELSE toString(hours) \o <<":">> \o padStart(toString(minutes), 2, "0") \o ampm
    IN  month \o <<" ">> \o toString(day) \o suffix \o <<",", " ">> \o timeString

formatDateTime(d) ==
    LET month == MonthShort[d.month + 1]
        day == d.date
        hours == hours12(d.hours)
        minutes == d.minutes
        ampm == ampmOf(d.hours)
        suffix == getOrdinalSuffix(day)
    IN  month \o <<" ">> \o toString(day) \o suffix \o <<",", " ">>
          \o toString(hours) \o <<":">> \o padStart(toString(minutes), 2, "0") \o ampm

-----------------------------------------------------------------------------
(* The WeatherTime component: weather-time.tsx lines 413-810 *)

null == <<>>

\* Temperatures are held in tenths of a degree.
Tenths(x) == x * 10

\* Math.round of a value held in tenths.
MathRound(t) == (t + 5) \div 10

UpperChars ==
    <<"A","B","C","D","E","F","G","H","I","J","K","L","M",
      "N","O","P","Q","R","S","T","U","V","W","X","Y","Z">>

LowerChars ==
    <<"a","b","c","d","e","f","g","h","i","j","k","l","m",
      "n","o","p","q","r","s","t","u","v","w","x","y","z">>

\* The characters of the strings that are converted.
Characters ==
    {UpperChars[k] : k \in 1..26} \cup {LowerChars[k] : k \in 1..26} \cup {" ", "."}

\* The lower-case form of each character.
lowerCaseOf ==
    [c \in Characters |->
        IF \E k \in 1..26 : UpperChars[k] = c
        THEN LowerChars[CHOOSE k \in 1..26 : UpperChars[k] = c]
        ELSE c]

\* String.prototype.toLowerCase
toLowerCase(s) == [i \in 1..Len(s) |-> lowerCaseOf[s[i]]]

\* useState<string>("Loading...")
initialCondition == <<"L","o","a","d","i","n","g",".",".",".">>

defaultCity == <<"N","e","w"," ","Y","o","r","k"," ","C","i","t","y">>

defaultCondition ==
    <<"P","a","t","c","h","y"," ","l","i","g","h","t"," ","s","n","o","w">>

defaultTemperatureC == 27

\* (27 * 9) / 5 + 32, in tenths
defaultTemperatureF == (Tenths(27) * 9) \div 5 + Tenths(32)

LOCAL_BASE == <<".", "img">>

GITHUB_WEATHER_PATH ==
    <<"https:", "", "eirastaffbase.github.io", "weather-time", "resources", "img">>

fallbackGHDefault == GITHUB_WEATHER_PATH \o <<"default.svg">>

\* isFahrenheit ? temperatureF : temperatureC
temperature == IF isFahrenheit THEN temperatureF ELSE temperatureC

\* ---- the city (lines 416, 426, 448, 600-603) ----

\* The characters String.prototype.trim removes, of those that can be typed.
WhiteSpace == {" ", "\t", "\n"}

RECURSIVE trimStart(_)
trimStart(s) ==
    IF s # <<>> /\ s[1] \in WhiteSpace THEN trimStart(Tail(s)) ELSE s

RECURSIVE trimEnd(_)
trimEnd(s) ==
    IF s # <<>> /\ s[Len(s)] \in WhiteSpace
    THEN trimEnd(SubSeq(s, 1, Len(s) - 1))
    ELSE s

\* String.prototype.trim
trim(s) == trimEnd(trimStart(s))

\* The values of the city prop; <<>> is an absent or empty prop.
CityProps == {<<>>, <<"R","i","o">>}

\* The values of the popup's text field when its Set button is clicked.
OverrideInputs ==
    {<<>>, <<" ", "\t">>, <<"O","s","l","o">>, <<" ","O","s","l","o"," ">>}

\* The selection of line 448 with the prop before the override.
displayCityOf_propFirst(o, c) ==
    IF c # <<>> THEN c
    ELSE IF o # null /\ o[1] # <<>> THEN o[1]
    ELSE defaultCity

\* overrideCity || city || defaultCity, of a nullable o and a string c.
displayCityOf(o, c) ==
    IF o # null /\ o[1] # <<>> THEN o[1]
    ELSE IF c # <<>> THEN c
    ELSE defaultCity

\* displayCity of the current render (line 448)
displayCity == displayCityOf(overrideCity, city)

\* overrideInput.trim() || null
overrideOf(input) == IF trim(input) # <<>> THEN <<trim(input)>> ELSE null

\* ---- what the two providers can answer ----

USA == "United States of America"

\* Stands for a location without a country field.
NoCountry == "(no country)"

\* condition.text values of the responses.
PartlyCloudyText == <<"P","a","r","t","l","y"," ","c","l","o","u","d","y">>

ModerateRainText == <<"M","o","d","e","r","a","t","e"," ","R","A","I","N">>

\* location.localtime, timeData.dateTime and new Date(), as getTime() values.
LocaltimeValues == {100000}
DateTimeValues == {200000}
NowValues == {300000}

\* The current part of a valid body: <<condition.code, is_day>>; code 0 also
\* stands for a missing code.
CurrentCases == {<<1003, 1>>, <<0, 0>>, <<4242, 1>>}

\* The location part of a valid body.
LocationCases ==
    { [location |-> FALSE, country |-> NoCountry, localtime |-> null,
       lat |-> FALSE, lon |-> FALSE],
      [location |-> TRUE, country |-> USA, localtime |-> <<100000>>,
       lat |-> TRUE, lon |-> TRUE],
      [location |-> TRUE, country |-> "Germany", localtime |-> null,
       lat |-> TRUE, lon |-> TRUE],
      [location |-> TRUE, country |-> NoCountry, localtime |-> <<100000>>,
       lat |-> TRUE, lon |-> FALSE] }

\* The body of an OK weather response after response.json().  data, current,
\* condition and location say whether that object is there; hasText, lat and
\* lon whether the field is.
Body(c, l, hasText, text) ==
    [data |-> TRUE, current |-> TRUE, condition |-> TRUE,
     hasText |-> hasText, text |-> text, code |-> c[1], is_day |-> c[2],
     temp_c |-> 268, temp_f |-> 803,
     location |-> l.location, country |-> l.country,
     name |-> <<"N","e","w"," ","Y","o","r","k">>, region |-> "New York",
     localtime |-> l.localtime, lat |-> l.lat, lon |-> l.lon]

\* Bodies that pass "data && data.current && data.current.condition".
ValidBodies ==
    {Body(c, l, TRUE, PartlyCloudyText) : c \in CurrentCases, l \in LocationCases}
        \cup {Body(<<1183, 0>>, l, TRUE, ModerateRainText) :
                l \in {k \in LocationCases : ~k.location}}
        \cup {Body(<<1003, 1>>, l, FALSE, PartlyCloudyText) :
                l \in {k \in LocationCases : k.country = USA}}

BlankBody ==
    [data |-> FALSE, current |-> FALSE, condition |-> FALSE,
     hasText |-> FALSE, text |-> PartlyCloudyText,
     code |-> 0, is_day |-> 0, temp_c |-> 0, temp_f |-> 0,
     location |-> FALSE, country |-> NoCountry,
     name |-> <<"N","e","w"," ","Y","o","r","k">>, region |-> "New York",
     localtime |-> null, lat |-> FALSE, lon |-> FALSE]

\* Bodies that fail "data && data.current && data.current.condition".
InvalidBodies ==
    { BlankBody,
      [BlankBody EXCEPT !.data = TRUE],
      [BlankBody EXCEPT !.data = TRUE, !.current = TRUE] }

\* The outcomes of the weather request: the fetch rejects, the response is
\* not OK, response.json() rejects, or a body.
WeatherOutcomes ==
    {[kind |-> k, body |-> BlankBody] : k \in {"reject", "notOk", "badJson"}}
        \cup {[kind |-> "ok", body |-> b] : b \in ValidBodies \cup InvalidBodies}

\* The outcomes of the time request.
TimeOutcomes ==
    {[kind |-> k, dateTime |-> null] : k \in {"reject", "notOk", "badJson"}}
        \cup {[kind |-> "ok", dateTime |-> d] :
                d \in {null} \cup {<<t>> : t \in DateTimeValues}}

\* ---- history records ----

\* kind: "none", "weather" (lines 497-506 of a run, on a body with these
\* code, is_day, location, country and temp_f) or "fallback" (the catch block
\* of a run, entered at stage); by: the place of that run in fetches, 0 once
\* it has completed; toggled: the unit was toggled since.
NotShown ==
    [kind |-> "none", by |-> 0, stage |-> "",
     code |-> 0, is_day |-> 0, location |-> FALSE, country |-> NoCountry,
     temp_f |-> 0, toggled |-> FALSE]

ShownFallback(stage) == [NotShown EXCEPT !.kind = "fallback", !.stage = stage]

ShownWeather(i, b) ==
    [NotShown EXCEPT !.kind = "weather", !.by = i, !.code = b.code,
                     !.is_day = b.is_day, !.location = b.location,
                     !.country = b.country, !.temp_f = b.temp_f]

\* fetches without its i-th run, which has completed; the runs issued before
\* it whose weather request has not settled are overtaken from then on.
Completed(i) ==
    [k \in 1..(Len(fetches) - 1) |->
        IF k < i
        THEN [fetches[k] EXCEPT !.overtaken = @ \/ fetches[k].pc = "weather"]
        ELSE fetches[k + 1]]

\* shown once run i has completed.
ShownAfter(i) ==
    [shown EXCEPT !.by = IF shown.by = i THEN 0
                         ELSE IF shown.by > i THEN shown.by - 1
                         ELSE shown.by]

\* ---- rendering and effects ----

NoImg ==
    [state |-> "none", src |-> <<>>, fallback |-> FALSE, fallback2 |-> FALSE,
     tries |-> 0]

\* The commit of a render whose iconUrl is url: the <img> exists once iconUrl
\* is non-empty, and React writes src only when the prop changed.  tries
\* counts the load failures since.
RenderImg(url) ==
    IF url = iconUrl
    THEN UNCHANGED img
    ELSE img' = IF img.state = "none"
                THEN [NoImg EXCEPT !.state = "loading", !.src = url]
                ELSE [img EXCEPT !.state = "loading", !.src = url, !.tries = 0]

\* The clock effect's cleanup (lines 574-577) without the clearInterval.
ClockEffect_noClear(newLocalTime) ==
    LET refAfterCleanup == IF clockCleanup THEN FALSE ELSE clockStartedRef
    IN  IF newLocalTime = null \/ refAfterCleanup
        THEN /\ clockStartedRef' = refAfterCleanup
             /\ clockIntervals' = clockIntervals
             /\ clockCleanup' = FALSE
        ELSE /\ clockStartedRef' = TRUE
             /\ clockIntervals' = clockIntervals + 1
             /\ clockCleanup' = TRUE

\* The clock effect (lines 563-578) after a render with a new localTime
\* object: the previous run's cleanup, then the effect body.
ClockEffect(newLocalTime) ==
    LET refAfterCleanup == IF clockCleanup THEN FALSE ELSE clockStartedRef
        intervalsAfterCleanup ==
            IF clockCleanup THEN clockIntervals - 1 ELSE clockIntervals
    IN  IF newLocalTime = null \/ refAfterCleanup
        THEN /\ clockStartedRef' = refAfterCleanup
             /\ clockIntervals' = intervalsAfterCleanup
             /\ clockCleanup' = FALSE
        ELSE /\ clockStartedRef' = TRUE
             /\ clockIntervals' = intervalsAfterCleanup + 1
             /\ clockCleanup' = TRUE

\* ---- fetchWeatherAndTime (lines 479-555) ----

\* The unit test of line 500 with any spelling of the country accepted.
defaultsToFahrenheit_anyCountry(b) == b.location /\ b.country # NoCountry

\* data.location?.country === "United States of America"
defaultsToFahrenheit(b) == b.location /\ b.country = USA

\* data.current.condition.code || 1000
weatherCodeOf(b) == IF b.code # 0 THEN b.code ELSE 1000

\* data.current.is_day === 1 ? "day" : "night"
timeOfDayOf(b) == IF b.is_day = 1 THEN "day" ELSE "night"

\* The icon URL of line 551 built on the icon of clear weather.
fallbackIconUrl_sunny == GITHUB_WEATHER_PATH \o <<"sunny.svg">>

\* `${GITHUB_WEATHER_PATH}/default.svg`
fallbackIconUrl == GITHUB_WEATHER_PATH \o <<"default.svg">>

\* The icon URL of line 506 built on the earlier variant's partly-cloudy icon.
resolvedIconUrl_doubleClouds(b) ==
    GITHUB_WEATHER_PATH
        \o <<IF weatherCodeOf(b) = 1003 /\ timeOfDayOf(b) = "day"
             THEN "double-clouds.svg"
             ELSE getIconFilename(weatherCodeOf(b), timeOfDayOf(b))>>

\* `${GITHUB_WEATHER_PATH}/${filename}`
resolvedIconUrl(b) ==
    GITHUB_WEATHER_PATH \o <<getIconFilename(weatherCodeOf(b), timeOfDayOf(b))>>

\* The first part of a run of the closure whose displayCity is q:
\* setIsLoading(true) and the weather request (lines 480-490).
IssueFetch(trigger, q) ==
    /\ Len(fetches) < MaxInFlight
    /\ fetches' = Append(fetches, [pc |-> "weather", q |-> q, overtaken |-> FALSE])
    /\ isLoading' = TRUE

StartFetch(trigger, q) ==
    /\ IssueFetch(trigger, q)
    /\ UNCHANGED <<condition, iconUrl, temperatureC, temperatureF, isFahrenheit,
                   localTime, cityName, region, country, cityVars, lifeVars,
                   img, clockVars, shown, pureVars>>

\* The catch and finally blocks (lines 544-554) of run i.
Catch(i, now, stage) ==
    /\ fetches' = Completed(i)
    /\ shown' = ShownFallback(stage)
    /\ condition' = toLowerCase(defaultCondition)
    /\ temperatureC' = <<Tenths(defaultTemperatureC)>>
    /\ temperatureF' = <<defaultTemperatureF>>
    /\ localTime' = <<now>>
    /\ ClockEffect(<<now>>)
    /\ isFahrenheit' = FALSE
    /\ iconUrl' = fallbackIconUrl
    /\ RenderImg(fallbackIconUrl)
    /\ isLoading' = FALSE
    /\ UNCHANGED <<cityName, region, country, cityVars, lifeVars, pureVars>>

\* Lines 496-518 and 538-540 of run i on the valid body b, up to the time
\* request or, without coordinates, to the end of the run.
WeatherOk(i, b, now) ==
    LET coords == b.location /\ b.lat /\ b.lon
        newLocalTime ==
            IF ~coords THEN <<now>>
            ELSE IF b.location /\ b.localtime # null THEN b.localtime
            ELSE <<now>>
    IN  /\ IF coords
           THEN /\ fetches' = [fetches EXCEPT ![i].pc = "time"]
                /\ UNCHANGED isLoading
                /\ shown' = ShownWeather(i, b)
           ELSE /\ fetches' = Completed(i)
                /\ isLoading' = FALSE
                /\ shown' = ShownWeather(0, b)
        /\ condition' = toLowerCase(b.text)
        /\ temperatureC' = <<b.temp_c>>
        /\ temperatureF' = <<b.temp_f>>
        /\ isFahrenheit' = defaultsToFahrenheit(b)
        /\ iconUrl' = resolvedIconUrl(b)
        /\ RenderImg(resolvedIconUrl(b))
        /\ localTime' = newLocalTime
        /\ ClockEffect(newLocalTime)
        /\ IF b.location
           THEN cityName' = b.name /\ region' = b.region /\ country' = b.country
           ELSE UNCHANGED <<cityName, region, country>>
        /\ UNCHANGED <<cityVars, lifeVars, pureVars>>

\* The outcomes that throw before line 497 has set anything: the fetch
\* rejects, the response is not OK (line 491), response.json() rejects, the
\* body fails the test of line 496, or condition.text is no string.
WeatherThrows(o) ==
    \/ o.kind # "ok"
    \/ ~(o.body.data /\ o.body.current /\ o.body.condition)
    \/ ~o.body.hasText

\* The weather request settling under an ordering guard: a run that a later
\* run has overtaken ends without writing any displayed state.
WeatherSettles_guarded(i, o, now) ==
    /\ mounted
    /\ i \in 1..Len(fetches)
    /\ fetches[i].pc = "weather"
    /\ IF fetches[i].overtaken
       THEN /\ fetches' = Completed(i)
            /\ shown' = shown
            /\ isLoading' = FALSE
            /\ UNCHANGED <<condition, iconUrl, temperatureC, temperatureF,
                           isFahrenheit, localTime, cityName, region, country,
                           cityVars, lifeVars, img, clockVars, pureVars>>
       ELSE IF WeatherThrows(o)
       THEN Catch(i, now, "weather")
       ELSE WeatherOk(i, o.body, now)

\* The weather request of run i settles with outcome o at the time now
\* (lines 488-543).
WeatherSettles(i, o, now) ==
    /\ mounted
    /\ i \in 1..Len(fetches)
    /\ fetches[i].pc = "weather"
    /\ IF WeatherThrows(o)
       THEN Catch(i, now, "weather")
       ELSE WeatherOk(i, o.body, now)

WeatherResponse(i) ==
    \E o \in WeatherOutcomes, now \in NowValues : WeatherSettles(i, o, now)

\* Lines 528-537 setting the local clock to the caller's time always.
timeLocalTime_now(o, now) == <<now>>

\* The value lines 528-537 set the local clock to.
timeLocalTime(o, now) ==
    IF o.kind = "ok" /\ o.dateTime # null THEN o.dateTime ELSE <<now>>

\* The non-throwing time response of run i, with the unit derived again from
\* the displayed country when the run completes.
TimeOk_resetsUnit(i, o, now) ==
    /\ fetches' = Completed(i)
    /\ shown' = ShownAfter(i)
    /\ localTime' = timeLocalTime(o, now)
    /\ ClockEffect(timeLocalTime(o, now))
    /\ isLoading' = FALSE
    /\ isFahrenheit' = (country = USA)
    /\ UNCHANGED <<condition, iconUrl, temperatureC, temperatureF,
                   cityName, region, country, cityVars, lifeVars, img, pureVars>>

\* Lines 528-537 of run i: the time response was read.
TimeOk(i, o, now) ==
    /\ fetches' = Completed(i)
    /\ shown' = ShownAfter(i)
    /\ localTime' = timeLocalTime(o, now)
    /\ ClockEffect(timeLocalTime(o, now))
    /\ isLoading' = FALSE
    /\ UNCHANGED <<condition, iconUrl, temperatureC, temperatureF, isFahrenheit,
                   cityName, region, country, cityVars, lifeVars, img, pureVars>>

\* The test of line 528 throwing on a response that is not OK, as line 491
\* does for the weather response.
TimeThrows_notOk(o) == o.kind # "ok"

\* The outcomes of the time request that throw: the fetch rejects or
\* timeResponse.json() rejects.
TimeThrows(o) == o.kind \in {"reject", "badJson"}

\* The time request of run i settles with outcome o at the time now
\* (lines 523-537).
TimeSettles(i, o, now) ==
    /\ mounted
    /\ i \in 1..Len(fetches)
    /\ fetches[i].pc = "time"
    /\ IF TimeThrows(o)
       THEN Catch(i, now, "time")
       ELSE TimeOk(i, o, now)

TimeResponse(i) ==
    \E o \in TimeOutcomes, now \in NowValues : TimeSettles(i, o, now)

\* A request of run i settles after the component was unmounted: the run
\* goes on, and React ignores its state updates.
ResponseUnmounted(i) ==
    /\ ~mounted
    /\ i \in 1..Len(fetches)
    /\ \/ fetches' = Completed(i)
       \/ /\ fetches[i].pc = "weather"
          /\ fetches' = [fetches EXCEPT ![i].pc = "time"]
    /\ UNCHANGED <<displayVars, cityVars, lifeVars, img, clockVars, shown,
                   pureVars>>

\* The polling interval's callback (lines 582-584): fetchWeatherAndTime of
\* the render whose effect created the interval, the first one.
PollTimer ==
    /\ pollIntervals > 0
    /\ StartFetch("poll", pollCity)

\* handleRefresh (lines 595-597), the click on the date or the icon.
handleRefresh ==
    /\ mounted
    /\ StartFetch("click", displayCity)

\* The fetch effect (lines 557-559) after a render whose displayCity is q.
FetchEffect(q) ==
    IF q # displayCity
    THEN IssueFetch("city", q)
    ELSE UNCHANGED <<fetches, isLoading>>

\* handleSetCityOverride (lines 600-603) with input in the text field, and
\* the fetch effect of the render it causes.
handleSetCityOverride(input) ==
    /\ mounted
    /\ overrideCity' = overrideOf(input)
    /\ FetchEffect(displayCityOf(overrideOf(input), city))
    /\ UNCHANGED <<condition, iconUrl, temperatureC, temperatureF, isFahrenheit,
                   localTime, cityName, region, country, city, pollCity,
                   lifeVars, img, clockVars, shown, pureVars>>

\* The embedding page renders the widget with another city prop (line 416),
\* and the fetch effect of that render.
CityPropChange(c) ==
    /\ mounted
    /\ c # city
    /\ city' = c
    /\ FetchEffect(displayCityOf(overrideCity, c))
    /\ UNCHANGED <<condition, iconUrl, temperatureC, temperatureF, isFahrenheit,
                   localTime, cityName, region, country, overrideCity, pollCity,
                   lifeVars, img, clockVars, shown, pureVars>>

\* toggleTemperatureUnit (lines 590-592); its <p> is rendered only when
\* temperature is not null.
toggleTemperatureUnit ==
    /\ mounted
    /\ temperature # null
    /\ isFahrenheit' = ~isFahrenheit
    /\ shown' = [shown EXCEPT !.toggled = TRUE]
    /\ UNCHANGED <<condition, iconUrl, temperatureC, temperatureF, localTime,
                   isLoading, cityName, region, country, cityVars, lifeVars,
                   fetches, img, clockVars, pureVars>>

\* The ticks that led from a value a fetch set to the clock value t.
TicksSinceSet(t) ==
    LET base == CHOOSE v \in LocaltimeValues \cup DateTimeValues \cup NowValues :
                    v <= t /\ t - v < 100000
    IN  (t - base) \div 1000

\* The ticker's callback (lines 567-572) and the clock effect it causes.
Tick ==
    /\ clockIntervals > 0
    /\ localTime # null
    /\ TicksSinceSet(localTime[1]) < MaxTicks
    /\ localTime' = <<localTime[1] + 1000>>
    /\ ClockEffect(<<localTime[1] + 1000>>)
    /\ UNCHANGED <<condition, iconUrl, temperatureC, temperatureF, isFahrenheit,
                   isLoading, cityName, region, country, cityVars, lifeVars,
                   fetches, img, shown, pureVars>>

\* The image of img.src loaded.
ImgLoad ==
    /\ img.state = "loading"
    /\ img' = [img EXCEPT !.state = "loaded"]
    /\ UNCHANGED <<displayVars, cityVars, lifeVars, fetches, clockVars, shown,
                   pureVars>>

\* The image of img.src failed to load: the onError handler (lines 729-741).
onError ==
    /\ img.state = "loading"
    /\ IF ~img.fallback
       THEN LET filenameFromLocalPath == iconUrl[Len(iconUrl)]
            IN  img' = [img EXCEPT !.fallback = TRUE, !.tries = @ + 1,
                                   !.src = GITHUB_WEATHER_PATH \o <<filenameFromLocalPath>>]
       ELSE IF ~img.fallback2
       THEN img' = [img EXCEPT !.fallback2 = TRUE, !.tries = @ + 1,
                               !.src = fallbackGHDefault]
       ELSE img' = [img EXCEPT !.state = "failed", !.tries = @ + 1]
    /\ UNCHANGED <<displayVars, cityVars, lifeVars, fetches, clockVars, shown,
                   pureVars>>

\* The polling effect's cleanup (line 586) of the earlier components of
\* src/unnamed/part_000, which start the interval and return nothing.
pollCleanup_none == pollIntervals

\* The polling effect's cleanup (line 586): clearInterval(weatherInterval).
pollCleanup == 0

\* The component is removed from display: React runs the cleanups of the
\* polling effect and of the last run of the clock effect, and discards the
\* instance; its state, props and closures are held at their first values
\* from then on.  The runs in flight go on.
Unmount ==
    /\ mounted
    /\ mounted' = FALSE
    /\ pollIntervals' = pollCleanup
    /\ IF clockCleanup
       THEN /\ clockIntervals' = clockIntervals - 1
            /\ clockStartedRef' = FALSE
       ELSE UNCHANGED <<clockIntervals, clockStartedRef>>
    /\ clockCleanup' = FALSE
    /\ condition' = initialCondition
    /\ iconUrl' = <<>>
    /\ temperatureC' = null
    /\ temperatureF' = null
    /\ isFahrenheit' = FALSE
    /\ localTime' = null
    /\ isLoading' = FALSE
    /\ cityName' = defaultCity
    /\ region' = ""
    /\ country' = ""
    /\ overrideCity' = null
    /\ city' = <<>>
    /\ pollCity' = defaultCity
    /\ img' = NoImg
    /\ shown' = NotShown
    /\ UNCHANGED <<fetches, pureVars>>

\* The state after the first render and its effects: the fetch effect has
\* started the first run, the clock effect has returned early, the polling
\* effect has started its interval.
WidgetInit ==
    /\ city \in CityProps
    /\ overrideCity = null
    /\ pollCity = displayCityOf(null, city)
    /\ condition = initialCondition
    /\ iconUrl = <<>>
    /\ temperatureC = null
    /\ temperatureF = null
    /\ isFahrenheit = FALSE
    /\ localTime = null
    /\ isLoading = TRUE
    /\ cityName = displayCityOf(null, city)
    /\ region = ""
    /\ country = ""
    /\ mounted = TRUE
    /\ pollIntervals = 1
    /\ fetches =
          <<[pc |-> "weather", q |-> displayCityOf(null, city), overtaken |-> FALSE]>>
    /\ img = NoImg
    /\ clockStartedRef = FALSE
    /\ clockIntervals = 0
    /\ clockCleanup = FALSE
    /\ shown = NotShown

-----------------------------------------------------------------------------
(* The pure functions applied to drawn inputs *)

\* The codes getIconFilename is applied to.
CodeInputs ==
    ((1000 - CodeSpan)..(1282 + CodeSpan)) \cup {0, -1, -2147483647 - 1, 2147483647}

\* Days of each month (getMonth numbering + 1), February of a leap year.
DaysInMonth == <<31, 29, 31, 30, 31, 30, 31, 31, 30, 31, 30, 31>>

\* The points in time formatDateTime is applied to, as the Date getters
\* return them.
DateInputs ==
    {d \in [month : 0..MaxMonth, date : 1..31, hours : 0..23, minutes : 0..59] :
        d.date <= DaysInMonth[d.month + 1]}

NoDate == [month |-> 0, date |-> 1, hours |-> 0, minutes |-> 0]

PureIdle ==
    /\ called = "none"
    /\ code = 0
    /\ timeOfDay = "day"
    /\ filename = ""
    /\ date = NoDate
    /\ formatted = <<>>

IconInit ==
    /\ WidgetInit
    /\ city = <<>>
    /\ called = "none"
    /\ code \in CodeInputs
    /\ timeOfDay \in {"day", "night"}
    /\ filename = ""
    /\ date = NoDate
    /\ formatted = <<>>

CallGetIconFilename ==
    /\ called = "none"
    /\ called' = "getIconFilename"
    /\ filename' = getIconFilename(code, timeOfDay)
    /\ UNCHANGED <<code, timeOfDay, date, formatted, widgetVars>>

SpecIcon == IconInit /\ [][CallGetIconFilename]_vars

FormatInit ==
    /\ WidgetInit
    /\ city = <<>>
    /\ called = "none"
    /\ code = 0
    /\ timeOfDay = "day"
    /\ filename = ""
    /\ date \in DateInputs
    /\ formatted = <<>>

CallFormatDateTime ==
    /\ called = "none"
    /\ called' = "formatDateTime"
    /\ formatted' = formatDateTime(date)
    /\ UNCHANGED <<code, timeOfDay, filename, date, widgetVars>>

SpecFormat == FormatInit /\ [][CallFormatDateTime]_vars

-----------------------------------------------------------------------------
(* The component's specifications *)

\* The runs of fetchWeatherAndTime, the display, the unit toggle, the timers
\* and the unmount, for a widget whose city stays the default one.  The load
\* events of the image, which change nothing but the image, are part of
\* SpecImg.
Init == WidgetInit /\ city = <<>> /\ PureIdle

Next ==
    \/ \E i \in 1..MaxInFlight : WeatherResponse(i)
    \/ \E i \in 1..MaxInFlight : TimeResponse(i)
    \/ \E i \in 1..MaxInFlight : ResponseUnmounted(i)
    \/ PollTimer
    \/ handleRefresh
    \/ toggleTemperatureUnit
    \/ Tick
    \/ Unmount

Spec == Init /\ [][Next]_vars

\* The city of a mounted widget: the prop, the override popup, and every way
\* a run is started.  The unit toggle, the ticker and the image's events,
\* which leave the city and the runs alone, are not part of it, and the
\* weather request either rejects or is answered with one body.
InitCity == WidgetInit /\ PureIdle

CityWeatherOutcomes ==
    {o \in WeatherOutcomes :
        \/ o.kind = "reject"
        \/ /\ ~WeatherThrows(o)
           /\ o.body.code = 1003
           /\ o.body.country = USA}

NextCity ==
    \/ \E i \in 1..MaxInFlight, o \in CityWeatherOutcomes, now \in NowValues :
          WeatherSettles(i, o, now)
    \/ \E i \in 1..MaxInFlight : TimeResponse(i)
    \/ PollTimer
    \/ handleRefresh
    \/ \E input \in OverrideInputs : handleSetCityOverride(input)
    \/ \E c \in CityProps : CityPropChange(c)

SpecCity == InitCity /\ [][NextCity]_vars

\* The image of the icon: the runs that resolve the icon URL and the load
\* events of the <img> element.
NextImg ==
    \/ \E i \in 1..MaxInFlight : WeatherResponse(i)
    \/ \E i \in 1..MaxInFlight : TimeResponse(i)
    \/ PollTimer
    \/ handleRefresh
    \/ ImgLoad
    \/ onError

SpecImg == Init /\ [][NextImg]_vars

-----------------------------------------------------------------------------
(* Claims about the component, checked under Spec *)

\* The last segment of a URL.
FileOf(url) == url[Len(url)]

\* The value the temperature paragraph shows: Math.round(temperature).
DisplayedTemperature == MathRound(temperature[1])

\* C1: when the weather request of a run rejects, is answered not-OK or with
\* a body without current.condition, then from the completion of that run
\* until a fetch writes the displayed state again (and the unit is not
\* toggled) the displayed temperature is the fallback Celsius value 27 with
\* the unit flag Celsius, the condition text is the fixed fallback condition
\* string (as the code stores it, in lower case) and the icon is default.svg.
C1_FetchFailureFallback ==
    (shown.kind = "fallback" /\ shown.stage = "weather" /\ ~shown.toggled) =>
        /\ ~isFahrenheit
        /\ temperature # null
        /\ DisplayedTemperature = 27
        /\ temperature = <<270>>
        /\ condition =
              <<"p","a","t","c","h","y"," ","l","i","g","h","t"," ","s","n","o","w">>
        /\ iconUrl # <<>>
        /\ FileOf(iconUrl) = "default.svg"
        /\ img.state # "none"
        /\ FileOf(img.src) = "default.svg"

\* A run whose weather request failed has completed, after an earlier run had
\* shown another icon, and no run is in flight.
C1_Witness ==
    /\ shown.kind = "fallback"
    /\ shown.stage = "weather"
    /\ ~shown.toggled
    /\ fetches = <<>>
    /\ country = USA
    /\ ~isFahrenheit
    /\ temperatureC = <<270>>
    /\ FileOf(iconUrl) = "default.svg"

\* C2: when the weather provider answers OK with condition code 1003,
\* is_day = 1 and country "United States of America", then after the run has
\* completed without entering the catch block (and until the displayed state
\* is written or the unit toggled again) the unit flag is Fahrenheit, the
\* Fahrenheit temperature of the response is displayed, and the icon is the
\* partly-cloudy day icon getIconFilename(1003, "day").
C2_SuccessfulFetchScenario ==
    (/\ shown.kind = "weather"
     /\ shown.by = 0
     /\ ~shown.toggled
     /\ shown.code = 1003
     /\ shown.is_day = 1
     /\ shown.location
     /\ shown.country = "United States of America") =>
        /\ isFahrenheit
        /\ temperature = <<shown.temp_f>>
        /\ DisplayedTemperature = MathRound(shown.temp_f)
        /\ FileOf(iconUrl) = "partly-cloudy-sun.svg"
        /\ FileOf(iconUrl) = getIconFilename(1003, "day")

\* The run of that response has completed through the time request, and no
\* run is in flight.
C2_Witness ==
    /\ shown.kind = "weather"
    /\ shown.by = 0
    /\ ~shown.toggled
    /\ shown.code = 1003
    /\ shown.is_day = 1
    /\ shown.country = "United States of America"
    /\ fetches = <<>>
    /\ ~isLoading
    /\ localTime = <<200000>>
    /\ isFahrenheit
    /\ FileOf(iconUrl) = "partly-cloudy-sun.svg"

\* C9: the image's fallback chain goes through the tiers local path, remote
\* path of the same file name, remote default asset: before any load failure
\* the image is asked for the local path of the resolved icon, after the
\* first failure for the remote path of the same file name, after the second
\* for the remote default asset.
C9_FallbackChain ==
    img.state # "none" =>
        /\ ~img.fallback => img.src = LOCAL_BASE \o <<FileOf(iconUrl)>>
        /\ (img.fallback /\ ~img.fallback2) =>
              img.src = GITHUB_WEATHER_PATH \o <<FileOf(iconUrl)>>
        /\ img.fallback2 => img.src = fallbackGHDefault

\* C20: the first load failure after a run has put a new icon URL on the
\* image (img.tries = 1) sends the image to the first fallback tier, the
\* remote copy of the file name of that icon, whatever tiers earlier icons
\* used on the same element.
C20_ChainRestartsPerIcon ==
    img.tries = 1 => img.src = GITHUB_WEATHER_PATH \o <<FileOf(iconUrl)>>

\* C10: after every run that completed without entering the catch block (and
\* until the displayed state is written or the unit toggled again) the unit
\* flag is Fahrenheit if and only if the response's location.country is
\* exactly "United States of America"; for any other country, or when
\* location or country is missing, it is Celsius.
C10_DefaultUnit ==
    (shown.kind = "weather" /\ shown.by = 0 /\ ~shown.toggled) =>
        /\ isFahrenheit <=>
              (shown.location /\ shown.country = "United States of America")
        /\ (~shown.location \/ shown.country = NoCountry) => ~isFahrenheit

\* A run answered with another country has completed, with the unit Celsius.
C10_Witness ==
    /\ shown.kind = "weather"
    /\ shown.by = 0
    /\ ~shown.toggled
    /\ shown.location
    /\ shown.country = "Germany"
    /\ fetches = <<>>
    /\ ~isFahrenheit
    /\ temperature = temperatureC

\* The step moves run i from its weather request on, or from its time
\* request on: what every step of WeatherSettles(i, o, now), or of
\* TimeSettles(i, o, now), does to fetches.
LeavesWeatherRequest(i) ==
    /\ i \in 1..Len(fetches)
    /\ fetches[i].pc = "weather"
    /\ \/ fetches' = Completed(i)
       \/ fetches' = [fetches EXCEPT ![i].pc = "time"]

LeavesTimeRequest(i) ==
    /\ i \in 1..Len(fetches)
    /\ fetches[i].pc = "time"
    /\ fetches' = Completed(i)

\* The step leaves the full fallback state, with the local clock at now.
FallbackAfter(now) ==
    /\ condition' =
          <<"p","a","t","c","h","y"," ","l","i","g","h","t"," ","s","n","o","w">>
    /\ temperatureC' = <<270>>
    /\ temperatureF' = <<806>>
    /\ ~isFahrenheit'
    /\ FileOf(iconUrl') = "default.svg"
    /\ localTime' = <<now>>

\* The claim's failures of a call: the request rejects or the response is
\* not OK.
CallFailed(o) == o.kind \in {"reject", "notOk"}

\* C12 as stated: whenever the weather request or the time request of a run
\* rejects or is answered not-OK, the step that handles it leaves the full
\* fallback state (fallback condition and temperatures, Celsius, default
\* icon, local clock = now).
C12_FailureCollapses ==
    [][\A i \in 1..MaxInFlight, now \in NowValues :
          /\ LeavesWeatherRequest(i) =>
                \A o \in WeatherOutcomes :
                    (CallFailed(o) /\ WeatherSettles(i, o, now)) =>
                        FallbackAfter(now)
          /\ LeavesTimeRequest(i) =>
                \A o \in TimeOutcomes :
                    (CallFailed(o) /\ TimeSettles(i, o, now)) =>
                        FallbackAfter(now)
      ]_vars

\* C12, amended: whenever the weather request of a run rejects or is answered
\* not-OK, or its time request rejects, the step that handles it leaves the
\* full fallback state, also when the weather response had been written
\* before; when the time response is not OK, the run completes with the
\* values written from its weather response left as they are and only the
\* local clock set to now.
C12_FailureCollapsesExceptTimeNotOk ==
    [][\A i \in 1..MaxInFlight, now \in NowValues :
          /\ LeavesWeatherRequest(i) =>
                \A o \in WeatherOutcomes :
                    (CallFailed(o) /\ WeatherSettles(i, o, now)) =>
                        FallbackAfter(now)
          /\ LeavesTimeRequest(i) =>
                \A o \in TimeOutcomes :
                    /\ (o.kind = "reject" /\ TimeSettles(i, o, now)) =>
                          FallbackAfter(now)
                    /\ (o.kind = "notOk" /\ TimeSettles(i, o, now)) =>
                          /\ localTime' = <<now>>
                          /\ Len(fetches') = Len(fetches) - 1
                          /\ UNCHANGED <<condition, temperatureC, temperatureF,
                                         isFahrenheit, iconUrl>>
      ]_vars

\* A run whose weather response had been written has entered the catch block
\* from its time request and completed.
C12_Witness ==
    /\ shown.kind = "fallback"
    /\ shown.stage = "time"
    /\ fetches = <<>>
    /\ country = "Germany"
    /\ temperatureC = <<270>>
    /\ localTime = <<300000>>
    /\ ~isFahrenheit

\* The weather response is OK and its body has current.condition with a
\* text.
ValidWeather(o) ==
    /\ o.kind = "ok"
    /\ o.body.data /\ o.body.current /\ o.body.condition /\ o.body.hasText

HasCoordinates(o) == o.body.location /\ o.body.lat /\ o.body.lon

\* C13: when the time provider answers OK with a dateTime (which it is asked
\* only after a valid weather response with latitude and longitude), the run
\* completes with the local clock at that dateTime, not at the weather
\* response's localtime and not at the caller's current time; when the time
\* response is OK without dateTime, or the valid weather response lacks a
\* coordinate, the run completes with the local clock at the caller's
\* current time.
C13_TimeProviderAuthoritative ==
    [][\A i \in 1..MaxInFlight, now \in NowValues :
          /\ LeavesTimeRequest(i) =>
                \A o \in TimeOutcomes :
                    (o.kind = "ok" /\ TimeSettles(i, o, now)) =>
                        /\ Len(fetches') = Len(fetches) - 1
                        /\ o.dateTime # <<>> =>
                              /\ localTime' = o.dateTime
                              /\ localTime' # <<now>>
                              /\ localTime'[1] \notin LocaltimeValues
                        /\ o.dateTime = <<>> => localTime' = <<now>>
          /\ LeavesWeatherRequest(i) =>
                \A o \in WeatherOutcomes :
                    (ValidWeather(o) /\ WeatherSettles(i, o, now)) =>
                        IF HasCoordinates(o)
                        THEN fetches'[i].pc = "time"
                        ELSE /\ Len(fetches') = Len(fetches) - 1
                             /\ localTime' = <<now>>
      ]_vars

\* A run has completed with the local clock at the time provider's dateTime,
\* after its weather response had set the clock to its localtime.
C13_Witness ==
    /\ localTime = <<200000>>
    /\ fetches = <<>>
    /\ shown.kind = "weather"
    /\ shown.by = 0
    /\ shown.country = "United States of America"
    /\ ~isLoading

\* C14: there is no ordering guard between runs.  When run i was issued
\* before a run that has already completed (it is overtaken) and its weather
\* response settles afterwards, the step writes the displayed condition,
\* temperatures, unit and icon of that older response (or the fallback state
\* when it throws); when the overtaken run then completes through its time
\* request, with no other run having written in between, the displayed state
\* stays the one the overtaken run wrote.
C14_LastCompletionWins ==
    [][\A i \in 1..MaxInFlight, now \in NowValues :
          /\ (LeavesWeatherRequest(i) /\ fetches[i].overtaken) =>
                \A o \in WeatherOutcomes :
                    WeatherSettles(i, o, now) =>
                        IF ValidWeather(o)
                        THEN /\ condition' = toLowerCase(o.body.text)
                             /\ temperatureC' = <<o.body.temp_c>>
                             /\ temperatureF' = <<o.body.temp_f>>
                             /\ isFahrenheit' = defaultsToFahrenheit(o.body)
                             /\ iconUrl' = resolvedIconUrl(o.body)
                             /\ shown'.kind = "weather"
                             /\ shown'.by = IF HasCoordinates(o) THEN i ELSE 0
                        ELSE FallbackAfter(now)
          /\ (LeavesTimeRequest(i) /\ fetches[i].overtaken /\ shown.by = i) =>
                \A o \in TimeOutcomes :
                    (~TimeThrows(o) /\ TimeSettles(i, o, now)) =>
                        /\ shown'.kind = "weather"
                        /\ shown'.by = 0
                        /\ UNCHANGED <<condition, temperatureC, temperatureF,
                                       isFahrenheit, iconUrl>>
      ]_vars

\* The only run in flight was overtaken by a run that has completed, and the
\* displayed state is the one its weather response wrote afterwards.
C14_Witness ==
    /\ Len(fetches) = 1
    /\ fetches[1].overtaken
    /\ fetches[1].pc = "time"
    /\ shown.kind = "weather"
    /\ shown.by = 1
    /\ ~isLoading

\* C16: in every reachable state at most one per-second ticker interval is
\* active, it is the one the clock effect's pending cleanup will clear, and
\* none is active while the local clock is unset; every tick advances the
\* local clock by exactly 1000 ms and leaves exactly one ticker active, also
\* after refreshes have overwritten the local clock.
C16_SingleTicker ==
    /\ [](/\ clockIntervals \in {0, 1}
          /\ localTime = null => clockIntervals = 0
          /\ clockIntervals = 1 <=> clockCleanup
          /\ clockStartedRef <=> clockCleanup)
    /\ [][Tick => /\ localTime'[1] = localTime[1] + 1000
                  /\ clockIntervals' = 1]_vars

\* The ticker has advanced a clock that a time response had set, one ticker
\* is active, and a later refresh is in flight.
C16_Witness ==
    /\ localTime = <<201000>>
    /\ clockIntervals = 1
    /\ fetches # <<>>
    /\ shown.kind = "weather"

\* C17: once the component is unmounted it stays unmounted, neither the
\* polling interval nor the per-second ticker is active, no cleanup is
\* pending, and no later step is a tick or a periodic fetch.
C17_TimerTeardown ==
    /\ [](~mounted => /\ pollIntervals = 0
                      /\ clockIntervals = 0
                      /\ ~clockCleanup)
    /\ [][~mounted => /\ ~mounted'
                      /\ ~Tick
                      /\ ~PollTimer
                      /\ UNCHANGED <<displayVars, clockVars, img>>]_vars

\* The component was unmounted with two runs in flight, and one of them has
\* since gone on to its time request.
C17_Witness ==
    /\ ~mounted
    /\ Len(fetches) = 2
    /\ \E i \in 1..2 : fetches[i].pc = "time"
    /\ pollIntervals = 0
    /\ clockIntervals = 0

\* C18: whenever a step leaves no run in flight by the OK time response of
\* run i, which sets the local clock, the displayed condition, temperatures,
\* unit and icon were written by the same run i: shown.by = i.  (A step that
\* leaves no run in flight in any other way writes all of them itself.)
C18_DisplayFromOneFetch ==
    [][\A i \in 1..MaxInFlight, now \in NowValues :
          (LeavesTimeRequest(i) /\ fetches' = <<>>) =>
              \A o \in TimeOutcomes :
                  (~TimeThrows(o) /\ TimeSettles(i, o, now)) => shown.by = i
      ]_vars

\* C19: while the component is mounted, isLoading is TRUE exactly in the
\* states in which at least one run of fetchWeatherAndTime is in flight.
C19_LoadingIffInFlight == mounted => (isLoading <=> fetches # <<>>)

\* The unit a run derives from the weather outcome o: line 500 on a valid
\* body, Celsius in the catch block.
UnitFrom(o) == IF ValidWeather(o) THEN defaultsToFahrenheit(o.body) ELSE FALSE

\* The toggle flips the unit flag and leaves condition, temperatures, icon
\* and local clock unchanged.
ToggleFlipsOnlyUnit ==
    toggleTemperatureUnit =>
        /\ isFahrenheit' = ~isFahrenheit
        /\ UNCHANGED <<condition, temperatureC, temperatureF, iconUrl,
                       localTime>>

\* C21, as stated: the toggle flips only the unit flag, and every step in
\* which a run completes sets the unit flag from the country of that run's
\* weather response, or to Celsius when the run fails; for a run completing
\* through its time response, the country of its weather response is
\* shown.country when that run wrote the displayed state (shown.by = i).
C21_ToggleHoldsUntilNextCompletion ==
    [][/\ ToggleFlipsOnlyUnit
       /\ \A i \in 1..MaxInFlight, now \in NowValues :
             /\ (LeavesWeatherRequest(i) /\ Len(fetches') < Len(fetches)) =>
                   \A o \in WeatherOutcomes :
                       WeatherSettles(i, o, now) => isFahrenheit' = UnitFrom(o)
             /\ LeavesTimeRequest(i) =>
                   \A o \in TimeOutcomes :
                       TimeSettles(i, o, now) =>
                           IF TimeThrows(o)
                           THEN ~isFahrenheit'
                           ELSE shown.by = i =>
                                   (isFahrenheit' <=>
                                      (shown.location /\ shown.country = USA))
      ]_vars

\* C21, amended: the toggle flips only the unit flag; every step in which a
\* weather response is handled sets the unit flag from the response country
\* (Celsius when the response throws), and a throwing time response sets it
\* to Celsius; a run that completes through a time response that does not
\* throw leaves the unit flag as it is, so a unit the user chose while that
\* run was waiting for its time response outlives the run's completion.
C21_ToggleHoldsUntilNextWeatherResponse ==
    [][/\ ToggleFlipsOnlyUnit
       /\ \A i \in 1..MaxInFlight, now \in NowValues :
             /\ LeavesWeatherRequest(i) =>
                   \A o \in WeatherOutcomes :
                       WeatherSettles(i, o, now) => isFahrenheit' = UnitFrom(o)
             /\ LeavesTimeRequest(i) =>
                   \A o \in TimeOutcomes :
                       TimeSettles(i, o, now) =>
                           /\ Len(fetches') = Len(fetches) - 1
                           /\ IF TimeThrows(o)
                              THEN ~isFahrenheit'
                              ELSE isFahrenheit' = isFahrenheit
      ]_vars

\* A run answered for the United States has completed through its time
\* response, no run is in flight, and the unit is the Celsius the user
\* toggled to.
C21_Witness ==
    /\ shown.kind = "weather"
    /\ shown.by = 0
    /\ shown.toggled
    /\ shown.location
    /\ shown.country = USA
    /\ ~isFahrenheit
    /\ fetches = <<>>
    /\ localTime = <<200000>>

-----------------------------------------------------------------------------
(* Claims about the city, checked under SpecCity *)

\* The run started by a step, when the step starts one.
StartsRun == Len(fetches') > Len(fetches)

NewRun == fetches'[Len(fetches')]

\* The city the claim expects to be requested for an override o and a prop c.
CityToRequest(o, c) ==
    CASE o # <<>> /\ o[1] # <<>> -> o[1]
      [] ~(o # <<>> /\ o[1] # <<>>) /\ c # <<>> -> c
      [] OTHER -> <<"N","e","w"," ","Y","o","r","k"," ","C","i","t","y">>

\* The text is empty or consists of blanks, tabs and newlines.
IsBlank(text) == \A k \in 1..Len(text) : text[k] \in {" ", "\t", "\n"}

\* C11: the run started at mount, and every run started by a change of the
\* city or by a click refresh, requests the non-empty override city if one is
\* set, otherwise the city prop if it is non-empty, otherwise "New York
\* City"; and setting the override from an input that is empty or only
\* whitespace sets it to null, and no run requests an empty city.  (The runs
\* the polling timer starts are the subject of C15.)
C11_CitySelection ==
    /\ \A k \in 1..Len(fetches) : fetches[k].q = CityToRequest(overrideCity, city)
    /\ [][/\ (StartsRun /\ ~PollTimer) =>
                NewRun.q = CityToRequest(overrideCity', city')
          /\ StartsRun => NewRun.q # <<>>
          /\ \A input \in OverrideInputs :
                (handleSetCityOverride(input) /\ IsBlank(input)) =>
                    overrideCity' = <<>>
          /\ overrideCity' # <<>> =>
                /\ overrideCity'[1] # <<>>
                /\ ~IsBlank(<<overrideCity'[1][1]>>)
                /\ ~IsBlank(<<overrideCity'[1][Len(overrideCity'[1])]>>)
         ]_vars

\* A run requests the override city although the city prop is set.
C11_Witness ==
    /\ city = <<"R","i","o">>
    /\ overrideCity = <<(<<"O","s","l","o">>)>>
    /\ fetches # <<>>
    /\ fetches[Len(fetches)].q = <<"O","s","l","o">>
    /\ pollCity = <<"N","e","w"," ","Y","o","r","k"," ","C","i","t","y">>

\* C15: every run the polling timer starts requests the city displayed at
\* that time (override, else city prop, else default).
C15_PollRequestsDisplayedCity ==
    [][PollTimer => NewRun.q = CityToRequest(overrideCity, city)]_vars

-----------------------------------------------------------------------------
(* Claims about getIconFilename, checked under SpecIcon *)

\* The case labels of the lookup table, family by family.
ClearCodes == {1000}
PartlyCloudyCodes == {1003}
CloudyFamily == {1006}
OvercastFamily == {1009}
MistFamily == {1030, 1135, 1147}
DrizzleFamily == {1063, 1072, 1150, 1153, 1168, 1171}
RainFamily == {1180 + 3 * i : i \in 0..7} \cup {1240, 1243, 1246}
SnowFamily ==
    {1066, 1069, 1114, 1117, 1237} \cup {1204 + 3 * i : i \in 0..7}
        \cup {1249 + 3 * i : i \in 0..5}
ThunderFamily == {1087} \cup {1273 + 3 * i : i \in 0..3}

TableCodes ==
    ClearCodes \cup PartlyCloudyCodes \cup CloudyFamily \cup OvercastFamily
        \cup MistFamily \cup DrizzleFamily \cup RainFamily \cup SnowFamily
        \cup ThunderFamily

\* C3: for every integer code that is not a case of the lookup table, and for
\* both "day" and "night", getIconFilename returns exactly "default.svg"; for
\* no code does it return the empty string.
C3_DefaultForUnknownCodes ==
    called = "getIconFilename" =>
        /\ filename # ""
        /\ code \notin TableCodes => filename = "default.svg"

\* An unknown code (the largest 32-bit integer, at night) resolved to the default.
C3_Witness ==
    /\ called = "getIconFilename"
    /\ code = 2147483647
    /\ timeOfDay = "night"
    /\ filename = "default.svg"

\* The icon of each day/night-invariant family.
InvariantFamilyIcon(c) ==
    CASE c \in CloudyFamily -> "cloudy.svg"
      [] c \in OvercastFamily -> "double-clouds.svg"
      [] c \in MistFamily -> "mist.svg"
      [] c \in RainFamily -> "rain.svg"
      [] c \in SnowFamily -> "snow.svg"
      [] c \in ThunderFamily -> "thunderstorm.svg"

InvariantFamilyCodes ==
    CloudyFamily \cup OvercastFamily \cup MistFamily \cup RainFamily
        \cup SnowFamily \cup ThunderFamily

\* C4: for every code of a day/night-invariant family (cloudy, overcast,
\* mist/fog, rain, snow/sleet/ice, thunderstorm) getIconFilename returns that
\* family's icon, and the result for "day" equals the result for "night".
C4_InvariantFamilies ==
    (called = "getIconFilename" /\ code \in InvariantFamilyCodes) =>
        /\ filename = InvariantFamilyIcon(code)
        /\ getIconFilename(code, "day") = getIconFilename(code, "night")

\* A rain code resolved at night to the rain icon.
C4_Witness ==
    /\ called = "getIconFilename"
    /\ code = 1246
    /\ timeOfDay = "night"
    /\ filename = "rain.svg"

\* The icons of each day/night-sensitive family, <<day, night>>.
SensitiveFamilyIcons(c) ==
    CASE c \in ClearCodes -> <<"sunny.svg", "clear-moon.svg">>
      [] c \in PartlyCloudyCodes -> <<"partly-cloudy-sun.svg", "partly-cloudy-moon.svg">>
      [] c \in DrizzleFamily -> <<"drizzle.svg", "drizzle-moon.svg">>

SensitiveFamilyCodes == ClearCodes \cup PartlyCloudyCodes \cup DrizzleFamily

\* C5: for every code of a day/night-sensitive family (clear, partly cloudy,
\* drizzle) getIconFilename(code, "day") and getIconFilename(code, "night")
\* are two different file names, each the one of that family and time of day.
C5_SensitiveFamilies ==
    (called = "getIconFilename" /\ code \in SensitiveFamilyCodes) =>
        /\ filename = SensitiveFamilyIcons(code)[IF timeOfDay = "day" THEN 1 ELSE 2]
        /\ getIconFilename(code, "day") # getIconFilename(code, "night")

\* A drizzle code resolved at night to the drizzle night icon.
C5_Witness ==
    /\ called = "getIconFilename"
    /\ code = 1171
    /\ timeOfDay = "night"
    /\ filename = "drizzle-moon.svg"

-----------------------------------------------------------------------------
(* Claims about formatDateTime, checked under SpecFormat *)

\* The first position of character c in s, 0 when s has no c.
IndexOf(s, c) ==
    IF \E i \in 1..Len(s) : s[i] = c
    THEN CHOOSE i \in 1..Len(s) : s[i] = c /\ \A j \in 1..(i - 1) : s[j] # c
    ELSE 0

\* The fields of a rendered "<Mon> <day><suffix>, <h>:<mm><am|pm>".
SuffixField(s) == SubSeq(s, IndexOf(s, ",") - 2, IndexOf(s, ",") - 1)
HourField(s) ==
    IF IndexOf(s, ":") > 0
    THEN SubSeq(s, IndexOf(s, ",") + 2, IndexOf(s, ":") - 1)
    ELSE SubSeq(s, IndexOf(s, ",") + 2, Len(s) - 2)
MinuteField(s) ==
    IF IndexOf(s, ":") > 0 THEN SubSeq(s, IndexOf(s, ":") + 1, Len(s) - 2) ELSE <<>>
AmPmField(s) == SubSeq(s, Len(s) - 1, Len(s))

IsDigits(s) == \A i \in 1..Len(s) : \E d \in 0..9 : s[i] = DigitChars[d + 1]
DigitValue(c) == CHOOSE d \in 0..9 : DigitChars[d + 1] = c
RECURSIVE NumberOf(_)
NumberOf(s) ==
    IF Len(s) = 0 THEN 0
    ELSE 10 * NumberOf(SubSeq(s, 1, Len(s) - 1)) + DigitValue(s[Len(s)])

\* C6: the ordinal suffix for every day of month 1..31 is "st" for 1, 21, 31,
\* "nd" for 2, 22, "rd" for 3, 23, and "th" for every other day, 11, 12 and 13
\* included.
C6_OrdinalSuffix ==
    called = "formatDateTime" =>
        SuffixField(formatted) =
            (CASE date.date \in {1, 21, 31} -> <<"s", "t">>
               [] date.date \in {2, 22} -> <<"n", "d">>
               [] date.date \in {3, 23} -> <<"r", "d">>
               [] OTHER -> <<"t", "h">>)

\* The 13th rendered with "th".
C6_Witness ==
    /\ called = "formatDateTime"
    /\ date.date = 13
    /\ SuffixField(formatted) = <<"t", "h">>

\* C7: the hour is rendered on a 12-hour clock for every hour 0..23: the hour
\* component is in 1..12, hour 0 is "12" with "am", hour 12 is "12" with "pm",
\* hours 1..11 are themselves with "am", hours 13..23 are hour-12 with "pm".
C7_TwelveHourClock ==
    called = "formatDateTime" =>
        /\ IsDigits(HourField(formatted))
        /\ NumberOf(HourField(formatted)) \in 1..12
        /\ HourField(formatted) = toString(NumberOf(HourField(formatted)))
        /\ date.hours = 0 =>
              HourField(formatted) = <<"1", "2">> /\ AmPmField(formatted) = <<"a", "m">>
        /\ date.hours = 12 =>
              HourField(formatted) = <<"1", "2">> /\ AmPmField(formatted) = <<"p", "m">>
        /\ date.hours \in 1..11 =>
              /\ NumberOf(HourField(formatted)) = date.hours
              /\ AmPmField(formatted) = <<"a", "m">>
        /\ date.hours \in 13..23 =>
              /\ NumberOf(HourField(formatted)) = date.hours - 12
              /\ AmPmField(formatted) = <<"p", "m">>

\* Midnight rendered as "12" with "am".
C7_Witness ==
    /\ called = "formatDateTime"
    /\ date.hours = 0
    /\ date.minutes = 0
    /\ HourField(formatted) = <<"1", "2">>
    /\ AmPmField(formatted) = <<"a", "m">>

\* C8: the minute is always rendered as exactly two digits, zero-padded, for
\* every minute 0..59; the minute field is never left out.
C8_TwoDigitMinute ==
    called = "formatDateTime" =>
        /\ IndexOf(formatted, ":") > 0
        /\ MinuteField(formatted) =
              <<DigitChars[(date.minutes \div 10) + 1], DigitChars[(date.minutes % 10) + 1]>>

\* Minute 0 rendered as "00".
C8_Witness ==
    /\ called = "formatDateTime"
    /\ date.minutes = 0
    /\ MinuteField(formatted) = <<"0", "0">>

====
